---- MODULE Spec2Model ----
(***************************************************************************)
(* ZIndexManager (lib/ZIndexManager.ts): a doubly linked list of           *)
(* ZIndexNode objects reachable from head, indexed by blockMap.            *)
(* A block id is a string, modelled as the sequence of its char codes.     *)
(* A node is identified by its blockId; next/prev hold a blockId or NULL.  *)
(* Every public operation is one action; lastOp/lastArg/lastRet/threw      *)
(* record the most recent call, prevOp/prevArg the call before it, and pre *)
(* the store as it was when the most recent call started.  registered is   *)
(* the callers' view: the ids passed to moveToFront and not passed to      *)
(* removeBlock, nor cleared by reset, since.  seenZ[id] is the value the    *)
(* first getZIndex(id) returned (-1 before any call).  blocks is the       *)
(* Canvas component's list of Block objects (by id) and mesh[id] the       *)
(* renderOrder of the Block's THREE.Mesh.                                  *)
(***************************************************************************)
EXTENDS Integers, Sequences, FiniteSets, TLC

VARIABLES head, blockMap, lastOp, lastArg, lastRet, threw, pre,
          prevOp, prevArg, registered, seenZ, blocks, mesh

vars == <<head, blockMap, lastOp, lastArg, lastRet, threw, pre,
          prevOp, prevArg, registered, seenZ, blocks, mesh>>

\* Number of distinct block ids the callers use.
NumIds == 3

\* Ids the callers draw from, as char-code sequences: "A", "GydZG_" (its
\* rolling hash is -2^31), "block_1" (negative hash), "" and "B".
IdPool ==
  << <<65>>, <<71, 121, 100, 90, 71, 95>>, <<98, 108, 111, 99, 107, 95, 49>>,
     <<>>, <<66>> >>

\* The ids in use: the first NumIds of the pool.
BlockIds == { IdPool[i] : i \in 1..NumIds }

\* null / undefined: a value that is no block id (char codes are >= 0).
NULL == <<-1>>

\* private baseRenderOrder = 9000
baseRenderOrder == 9000

\* new Map<string, ZIndexNode>()
EmptyMap == [b \in {} |-> NULL]

\* new ZIndexNode(blockId, fixedZIndex): renderOrder = 9000, next = prev = null
ZIndexNode(blockId, fixedZIndex) ==
  [blockId |-> blockId, fixedZIndex |-> fixedZIndex, renderOrder |-> 9000,
   next |-> NULL, prev |-> NULL]

\* while (current) { blocks.push(current.blockId); current = current.next }
RECURSIVE Walk(_, _, _)
Walk(m, current, fuel) ==
  IF current = NULL \/ current \notin DOMAIN m \/ fuel = 0
  THEN <<>>
  ELSE <<m[current].blockId>> \o Walk(m, m[current].next, fuel - 1)

\* getAllBlocks() on a store with head h and map m
AllBlocksOf(h, m) == Walk(m, h, Cardinality(BlockIds) + 1)

getAllBlocks == AllBlocksOf(head, blockMap)

\* getBlockCount(): this.blockMap.size
getBlockCount == Cardinality(DOMAIN blockMap)

getRenderOrderNoDefault(m, blockId) ==
  IF blockId \in DOMAIN m THEN m[blockId].renderOrder ELSE 0

\* getRenderOrder(blockId): node ? node.renderOrder : this.baseRenderOrder
getRenderOrder(m, blockId) ==
  IF blockId \in DOMAIN m THEN m[blockId].renderOrder ELSE baseRenderOrder

\* A 32-bit integer is the pair <<hi, lo>> of the two 16-bit halves of its
\* two's complement bit pattern.
W16 == 65536

\* The 32-bit pattern of hi * 2^16 + lo for naturals hi, lo (wraps).
Norm(hi, lo) == <<(hi + (lo \div W16)) % W16, lo % W16>>

\* hash << 5
Shl5(h) == Norm(h[1] * 32, h[2] * 32)

\* a - b, wrapped to 32 bits
Sub32(a, b) == Norm(a[1] - b[1] + W16 - 1, a[2] - b[2] + W16)

\* a + c for a char code c, wrapped to 32 bits
AddChar(a, c) == Norm(a[1], a[2] + c)

\* the sign bit of the int32
IsNegative(h) == h[1] >= 32768

\* Math.abs(hash) as an unsigned magnitude (2^31 for -2^31)
Abs32(h) == IF IsNegative(h) THEN Sub32(<<0, 0>>, h) ELSE h

\* magnitude % 8000, with 2^16 % 8000 = 1536
Mod8000(mag) == ((mag[1] % 8000) * 1536 + mag[2]) % 8000

\* for (i = 0; i < blockId.length; i++)
\*   hash = ((hash << 5) - hash + blockId.charCodeAt(i)) & 0xffffffff
RECURSIVE HashLoop(_, _, _)
HashLoop(blockId, hash, i) ==
  IF i > Len(blockId) THEN hash
  ELSE HashLoop(blockId, AddChar(Sub32(Shl5(hash), hash), blockId[i]), i + 1)

generateFixedZIndexNoAbs(blockId) ==
  LET hash == HashLoop(blockId, <<0, 0>>, 1) IN
  IF IsNegative(hash) THEN 1000 - Mod8000(Abs32(hash))
  ELSE Mod8000(hash) + 1000

\* generateFixedZIndex(blockId): Math.abs(hash) % 8000 + 1000
generateFixedZIndex(blockId) ==
  Mod8000(Abs32(HashLoop(blockId, <<0, 0>>, 1))) + 1000

\* getZIndex(blockId): node ? node.fixedZIndex : generateFixedZIndex(blockId)
getZIndex(m, blockId) ==
  IF blockId \in DOMAIN m THEN m[blockId].fixedZIndex
  ELSE generateFixedZIndex(blockId)

\* getBlocksNeedingUpdate(): {blockId, renderOrder} of each node from head
BlocksNeedingUpdateOf(h, m) ==
  LET ids == Walk(m, h, Cardinality(BlockIds) + 1) IN
  [k \in 1..Len(ids) |->
     [blockId |-> m[ids[k]].blockId, renderOrder |-> m[ids[k]].renderOrder]]

\* updateRenderOrders(): throw new Error('Not implemented')
updateRenderOrdersThrows == TRUE

moveToFrontMapOnly(h, m, blockId) ==
  [head |-> h,
   blockMap |-> [b \in DOMAIN m \cup {blockId} |->
                   IF b \in DOMAIN m THEN m[b]
                   ELSE ZIndexNode(b, generateFixedZIndex(b))],
   ret |-> 0]

moveToFrontHeadOnly(h, m, blockId) ==
  [head |-> blockId, blockMap |-> m, ret |-> 0]

\* moveToFront(blockId): the body is "return 0;" - nothing is looked up,
\* created, unlinked or relinked, and updateRenderOrders is not called.
moveToFront(h, m, blockId) ==
  [head |-> h, blockMap |-> m, ret |-> 0]

\* The unlink-and-delete part of removeBlock for a node that is in the map,
\* followed by the call of updateRenderOrders.
removeTracked(h, m, blockId) ==
  LET node == m[blockId]
      h1 == IF blockId = h THEN node.next ELSE h
      m1 == [b \in DOMAIN m |->
               IF node.prev # NULL /\ b = node.prev
               THEN [m[b] EXCEPT !.next = node.next] ELSE m[b]]
      m2 == [b \in DOMAIN m1 |->
               IF node.next # NULL /\ b = node.next
               THEN [m1[b] EXCEPT !.prev = node.prev] ELSE m1[b]]
      m3 == [b \in (DOMAIN m2) \ {blockId} |-> m2[b]]
  IN [head |-> h1, blockMap |-> m3, threw |-> updateRenderOrdersThrows]

removeBlockNoGuard(h, m, blockId) ==
  IF blockId \notin DOMAIN m
  THEN [head |-> h, blockMap |-> m, threw |-> TRUE]
  ELSE removeTracked(h, m, blockId)

\* removeBlock(blockId): if (!node) return; otherwise unlink, delete, relabel
removeBlock(h, m, blockId) ==
  IF blockId \notin DOMAIN m
  THEN [head |-> h, blockMap |-> m, threw |-> FALSE]
  ELSE removeTracked(h, m, blockId)

\* reset(): this.head = null; this.blockMap.clear()
reset(h, m) == [head |-> NULL, blockMap |-> EmptyMap]

\* The store and the caller's registrations when a call starts.
Snapshot ==
  [head |-> head, blockMap |-> blockMap, registered |-> registered,
   seenZ |-> seenZ]

\* private head = null; private blockMap = new Map()
Init ==
  /\ head = NULL
  /\ blockMap = EmptyMap
  /\ lastOp = "init"
  /\ lastArg = NULL
  /\ lastRet = NULL
  /\ threw = FALSE
  /\ pre = [head |-> NULL, blockMap |-> EmptyMap, registered |-> {},
            seenZ |-> [b \in BlockIds |-> -1]]
  /\ prevOp = "init"
  /\ prevArg = NULL
  /\ registered = {}
  /\ seenZ = [b \in BlockIds |-> -1]
  /\ blocks = <<>>
  /\ mesh = EmptyMap

\* Bookkeeping shared by all calls.
Called(op, arg) ==
  /\ lastOp' = op
  /\ lastArg' = arg
  /\ prevOp' = lastOp
  /\ prevArg' = lastArg
  /\ pre' = Snapshot

MoveToFront(blockId) ==
  LET r == moveToFront(head, blockMap, blockId) IN
  /\ head' = r.head
  /\ blockMap' = r.blockMap
  /\ lastRet' = r.ret
  /\ threw' = FALSE
  /\ registered' = registered \cup {blockId}
  /\ UNCHANGED <<seenZ, blocks, mesh>>
  /\ Called("moveToFront", blockId)

RemoveBlock(blockId) ==
  LET r == removeBlock(head, blockMap, blockId) IN
  /\ head' = r.head
  /\ blockMap' = r.blockMap
  /\ lastRet' = NULL
  /\ threw' = r.threw
  /\ registered' = registered \ {blockId}
  /\ UNCHANGED <<seenZ, blocks, mesh>>
  /\ Called("removeBlock", blockId)

Reset ==
  LET r == reset(head, blockMap) IN
  /\ head' = r.head
  /\ blockMap' = r.blockMap
  /\ lastRet' = NULL
  /\ threw' = FALSE
  /\ registered' = {}
  /\ UNCHANGED <<seenZ, blocks, mesh>>
  /\ Called("reset", NULL)

GetRenderOrder(blockId) ==
  /\ lastRet' = getRenderOrder(blockMap, blockId)
  /\ threw' = FALSE
  /\ UNCHANGED <<head, blockMap, registered>>
  /\ UNCHANGED <<seenZ, blocks, mesh>>
  /\ Called("getRenderOrder", blockId)

GetBlockCount ==
  /\ lastRet' = getBlockCount
  /\ threw' = FALSE
  /\ UNCHANGED <<head, blockMap, registered>>
  /\ UNCHANGED <<seenZ, blocks, mesh>>
  /\ Called("getBlockCount", NULL)

GetAllBlocks ==
  /\ lastRet' = getAllBlocks
  /\ threw' = FALSE
  /\ UNCHANGED <<head, blockMap, registered>>
  /\ UNCHANGED <<seenZ, blocks, mesh>>
  /\ Called("getAllBlocks", NULL)

GetZIndexRegisters(blockId) ==
  LET r == moveToFrontMapOnly(head, blockMap, blockId) IN
  /\ lastRet' = getZIndex(blockMap, blockId)
  /\ seenZ' = IF seenZ[blockId] = -1
               THEN [seenZ EXCEPT ![blockId] = getZIndex(blockMap, blockId)]
               ELSE seenZ
  /\ threw' = FALSE
  /\ blockMap' = r.blockMap
  /\ UNCHANGED <<head, registered, blocks, mesh>>
  /\ Called("getZIndex", blockId)

GetZIndex(blockId) ==
  /\ lastRet' = getZIndex(blockMap, blockId)
  /\ seenZ' = IF seenZ[blockId] = -1
               THEN [seenZ EXCEPT ![blockId] = getZIndex(blockMap, blockId)]
               ELSE seenZ
  /\ threw' = FALSE
  /\ UNCHANGED <<head, blockMap, registered, blocks, mesh>>
  /\ Called("getZIndex", blockId)

GetBlocksNeedingUpdate ==
  /\ lastRet' = BlocksNeedingUpdateOf(head, blockMap)
  /\ threw' = FALSE
  /\ UNCHANGED <<head, blockMap, registered, seenZ, blocks, mesh>>
  /\ Called("getBlocksNeedingUpdate", NULL)

Next ==
  \/ \E blockId \in BlockIds : MoveToFront(blockId)
  \/ \E blockId \in BlockIds : RemoveBlock(blockId)
  \/ Reset
  \/ \E blockId \in BlockIds : GetRenderOrder(blockId)
  \/ \E blockId \in BlockIds : GetZIndex(blockId)
  \/ GetBlockCount
  \/ GetAllBlocks
  \/ GetBlocksNeedingUpdate

Spec == Init /\ [][Next]_vars

(***************************************************************************)
(* The application: the Canvas component and its Block objects, the only   *)
(* callers of the store in the repository.                                 *)
(***************************************************************************)

\* The ids of the Block objects in the list bs.
BlockIdsOf(bs) == { bs[i] : i \in 1..Len(bs) }

\* Block.updateRenderOrder(): this.mesh.renderOrder = getRenderOrder(this.id)
updateRenderOrder(ms, m, id) ==
  [b \in DOMAIN ms \cup {id} |->
     IF b = id THEN getRenderOrder(m, id) ELSE ms[b]]

\* handleUpdate: blocks.forEach(block => block.updateRenderOrder())
handleUpdate(ms, m, bs) ==
  [b \in DOMAIN ms |->
     IF b \in BlockIdsOf(bs) THEN getRenderOrder(m, b) ELSE ms[b]]

\* blocks.forEach(block => block.dispose()): removeBlock(id) for each block
\* in turn; an exception ends the loop.
RECURSIVE DisposeAll(_, _, _, _)
DisposeAll(h, m, bs, i) ==
  IF i > Len(bs) THEN [head |-> h, blockMap |-> m, threw |-> FALSE]
  ELSE LET r == removeBlock(h, m, bs[i]) IN
       IF r.threw THEN r ELSE DisposeAll(r.head, r.blockMap, bs, i + 1)

\* addBlock: new Block(...) runs assignZIndex (moveToFront, then
\* updateRenderOrder); setBlocks(prev => [...prev, newBlock]).  The id is
\* a new random string.
AddBlock(id) ==
  LET r == moveToFront(head, blockMap, id) IN
  /\ id \notin BlockIdsOf(blocks)
  /\ head' = r.head
  /\ blockMap' = r.blockMap
  /\ mesh' = updateRenderOrder(mesh, r.blockMap, id)
  /\ blocks' = Append(blocks, id)
  /\ registered' = registered \cup {id}
  /\ lastRet' = NULL
  /\ threw' = FALSE
  /\ UNCHANGED seenZ
  /\ Called("addBlock", id)

\* handlePointerDown on the i-th block: block.bringToFront() (moveToFront,
\* then updateRenderOrder), then onUpdate() = handleUpdate.
PointerDown(i) ==
  LET id == blocks[i]
      r == moveToFront(head, blockMap, id)
  IN
  /\ head' = r.head
  /\ blockMap' = r.blockMap
  /\ mesh' = handleUpdate(updateRenderOrder(mesh, r.blockMap, id),
                          r.blockMap, blocks)
  /\ blocks' = blocks
  /\ registered' = registered \cup {id}
  /\ lastRet' = NULL
  /\ threw' = FALSE
  /\ UNCHANGED seenZ
  /\ Called("pointerDown", id)

\* removeAllBlocks: dispose every block, setBlocks([]), reset()
RemoveAllBlocks ==
  LET r == DisposeAll(head, blockMap, blocks, 1) IN
  /\ threw' = r.threw
  /\ IF r.threw
     THEN /\ head' = r.head
          /\ blockMap' = r.blockMap
          /\ UNCHANGED <<blocks, mesh, registered>>
     ELSE /\ head' = reset(r.head, r.blockMap).head
          /\ blockMap' = reset(r.head, r.blockMap).blockMap
          /\ blocks' = <<>>
          /\ mesh' = EmptyMap
          /\ registered' = {}
  /\ lastRet' = NULL
  /\ UNCHANGED seenZ
  /\ Called("removeAllBlocks", NULL)

NextCanvas ==
  \/ \E id \in BlockIds : AddBlock(id)
  \/ \E i \in 1..Len(blocks) : PointerDown(i)
  \/ RemoveAllBlocks

SpecCanvas == Init /\ [][NextCanvas]_vars

(***************************************************************************)
(* Properties                                                              *)
(***************************************************************************)

\* The sequence s without every occurrence of x.
Without(s, x) == SelectSeq(s, LAMBDA e : e # x)

\* Number of positions of s that hold x.
Occurrences(s, x) == Cardinality({ i \in 1..Len(s) : s[i] = x })

\* The rank of a tracked id, read from its node.
RankOfNode(blockId) == blockMap[blockId].renderOrder

\* The rank the store reports for any id: the node's rank, 9000 if no node.
RankOf(blockId) ==
  IF blockId \in DOMAIN blockMap THEN RankOfNode(blockId) ELSE 9000

\* The id sequence of the store as it was when the last call started.
PreBlocks == AllBlocksOf(pre.head, pre.blockMap)

\* An id is tracked at the start of the last call if it has a node in the
\* index or the caller has moved it to front and not removed or reset it.
WasTracked(blockId) ==
  blockId \in DOMAIN pre.blockMap \/ blockId \in pre.registered

\* C1: after moveToFront(x) returns, x is the first element of the
\* front-to-back id sequence.
C1_FrontCorrectness ==
  lastOp = "moveToFront" =>
    /\ Len(getAllBlocks) > 0
    /\ Head(getAllBlocks) = lastArg

\* C2: walking getAllBlocks() from front to tail yields strictly decreasing
\* ranks, so no two tracked items (ids moved to front and not removed since)
\* ever share a rank.
C2_RankMonotonicity ==
  /\ \A i \in 1..Len(getAllBlocks), j \in 1..Len(getAllBlocks) :
       i < j => RankOf(getAllBlocks[i]) > RankOf(getAllBlocks[j])
  /\ \A a \in registered, b \in registered :
       a # b => RankOf(a) # RankOf(b)

\* C3: moveToFront(x) yields the sequence [x] followed by all other
\* previously tracked ids in their previous relative order.
C3_PureReorder ==
  lastOp = "moveToFront" =>
    getAllBlocks = <<lastArg>> \o Without(PreBlocks, lastArg)

\* C4: a second moveToFront(x) immediately after moveToFront(x) leaves the
\* sequence, every rank and the count as they were, and returns x's rank.
C4_FrontIdempotent ==
  (prevOp = "moveToFront" /\ lastOp = "moveToFront" /\ prevArg = lastArg) =>
    /\ head = pre.head
    /\ blockMap = pre.blockMap
    /\ lastRet = RankOf(lastArg)

\* C5: after removeBlock(x) of a tracked id x completes, x is absent from
\* the sequence, the count is one less than before, and the remaining ids
\* keep their relative order.
C5_RemovalCorrectness ==
  (lastOp = "removeBlock" /\ WasTracked(lastArg)) =>
    /\ ~threw
    /\ Occurrences(getAllBlocks, lastArg) = 0
    /\ getBlockCount = Cardinality(DOMAIN pre.blockMap) - 1
    /\ getAllBlocks = Without(PreBlocks, lastArg)

\* C6: removeBlock of an id that has no node in the index changes neither
\* the sequence, the ranks, the front reference nor the count, and raises
\* no error.
C6_RemoveUntrackedNoOp ==
  (lastOp = "removeBlock" /\ lastArg \notin DOMAIN pre.blockMap) =>
    /\ ~threw
    /\ head = pre.head
    /\ blockMap = pre.blockMap
    /\ getAllBlocks = PreBlocks
    /\ getBlockCount = Cardinality(DOMAIN pre.blockMap)

\* C6 witness: an id is removed right after it was moved to front and
\* again while it has no node.
C6_Witness ==
  /\ lastOp = "removeBlock"
  /\ lastArg \notin DOMAIN pre.blockMap
  /\ prevOp = "moveToFront"
  /\ prevArg = lastArg

\* C7: after reset() the count is 0 and the sequence is empty, reset never
\* fails, a second reset changes nothing, and a following moveToFront(x)
\* yields the sequence [x] with count 1.
C7_ResetCorrectness ==
  /\ lastOp = "reset" =>
       (~threw /\ getBlockCount = 0 /\ getAllBlocks = <<>>)
  /\ (prevOp = "reset" /\ lastOp = "reset") =>
       (head = pre.head /\ blockMap = pre.blockMap)
  /\ (prevOp = "reset" /\ lastOp = "moveToFront") =>
       (getAllBlocks = <<lastArg>> /\ getBlockCount = 1)

\* C8: after moveToFront(x) the rank of x is the maximum assigned rank and
\* equals 9000, and the returned value equals getRenderOrder(x).
C8_FrontRank ==
  lastOp = "moveToFront" =>
    /\ RankOf(lastArg) = 9000
    /\ \A b \in DOMAIN blockMap : RankOfNode(b) <= RankOf(lastArg)
    /\ lastRet = RankOf(lastArg)

\* C9: an id is a key of the index iff it occurs exactly once in the list
\* reachable from head, no id occurs twice, and getBlockCount() equals the
\* length of getAllBlocks().
C9_IndexListConsistent ==
  /\ \A b \in BlockIds :
       b \in DOMAIN blockMap <=> Occurrences(getAllBlocks, b) = 1
  /\ \A b \in BlockIds : Occurrences(getAllBlocks, b) <= 1
  /\ \A b \in DOMAIN blockMap : blockMap[b].blockId = b
  /\ getBlockCount = Len(getAllBlocks)
  /\ lastOp = "getBlockCount" => lastRet = Len(getAllBlocks)

\* C9 witness: the count is read after an id was moved to front.
C9_Witness ==
  /\ lastOp = "getBlockCount"
  /\ prevOp = "moveToFront"
  /\ lastRet = Len(getAllBlocks)

\* C10: getRenderOrder(id) returns the node's rank when id has a node and
\* 9000 when it has none, also after the id was moved to front and then
\* removed or reset.
C10_RankOfDefault ==
  lastOp = "getRenderOrder" =>
    /\ ~threw
    /\ lastArg \in DOMAIN blockMap => lastRet = RankOfNode(lastArg)
    /\ lastArg \notin DOMAIN blockMap => lastRet = 9000

\* C10 witness: the rank of an id is read right after the id was removed
\* or the store was reset, and the id has no node.
C10_Witness ==
  /\ lastOp = "getRenderOrder"
  /\ prevOp \in {"removeBlock", "reset"}
  /\ lastArg \notin DOMAIN blockMap
  /\ lastRet = 9000

\* C11: getZIndex(id) returns an integer in [1000, 9000), the same on every
\* call - before, while and after the caller has the id moved to front or
\* removed - also when the 32-bit rolling hash is negative or -2^31.
C11_StableKey ==
  lastOp = "getZIndex" =>
    /\ ~threw
    /\ lastRet \in 1000..8999
    /\ lastRet = seenZ[lastArg]

\* C11 witness: getZIndex("GydZG_"), whose hash is -2^31, returns 4648 on a
\* repeated call that follows a removeBlock of the same id.
C11_Witness ==
  /\ lastOp = "getZIndex"
  /\ lastArg = IdPool[2]
  /\ IsNegative(HashLoop(lastArg, <<0, 0>>, 1))
  /\ Abs32(HashLoop(lastArg, <<0, 0>>, 1)) = <<32768, 0>>
  /\ pre.seenZ[lastArg] # -1
  /\ prevOp = "removeBlock"
  /\ prevArg = lastArg
  /\ lastRet = 4648

\* C12: every public operation, called in any reachable state with any id,
\* returns without raising an error, and the walk from head ends.
C12_Totality ==
  /\ ~threw
  /\ Len(Walk(blockMap, head, Cardinality(BlockIds) + 1))
       <= Cardinality(DOMAIN blockMap)

\* C12 witness: removeBlock(x) has returned normally for an id the caller
\* had moved to front, while another id was moved to front as well.
C12_Witness ==
  /\ lastOp = "removeBlock"
  /\ lastArg \in pre.registered
  /\ pre.registered # {lastArg}
  /\ ~threw

\* C14: after a moveToFront or a removeBlock the item at 0-based position k
\* from the front has rank 9000 - k; so the items the caller moved to front
\* before the front one have the ranks 8999, 8998, ... without a gap.
C14_FullRelabel ==
  lastOp \in {"moveToFront", "removeBlock"} =>
    /\ \A k \in 1..Len(getAllBlocks) :
         RankOf(getAllBlocks[k]) = 9000 - (k - 1)
    /\ lastOp = "moveToFront" =>
         \A b \in registered \ {lastArg} :
           /\ RankOf(b) <= 8999
           /\ RankOf(b) >= 9000 - (Cardinality(registered) - 1)

C17_RegistersOnFirstUse ==
  lastOp = "moveToFront" =>
    /\ lastArg \notin DOMAIN pre.blockMap =>
         /\ getBlockCount = Cardinality(DOMAIN pre.blockMap) + 1
         /\ DOMAIN blockMap = DOMAIN pre.blockMap \cup {lastArg}
    /\ lastArg \in DOMAIN pre.blockMap =>
         DOMAIN blockMap = DOMAIN pre.blockMap

\* C18: the queries leave head, the index, the list and every rank as they
\* were and register nothing; getBlocksNeedingUpdate lists the ids of
\* getAllBlocks in order, each with the rank getRenderOrder reports.
C18_QueriesReadOnly ==
  /\ lastOp \in {"getRenderOrder", "getZIndex", "getBlockCount",
                 "getAllBlocks", "getBlocksNeedingUpdate"} =>
       /\ ~threw
       /\ head = pre.head
       /\ blockMap = pre.blockMap
  /\ lastOp = "getBlocksNeedingUpdate" =>
       /\ Len(lastRet) = Len(getAllBlocks)
       /\ \A k \in 1..Len(lastRet) :
            /\ lastRet[k].blockId = getAllBlocks[k]
            /\ lastRet[k].renderOrder = RankOf(getAllBlocks[k])

\* C18 witness: getBlocksNeedingUpdate runs right after getZIndex of an id
\* that has no node, and the id still has none.
C18_Witness ==
  /\ lastOp = "getBlocksNeedingUpdate"
  /\ prevOp = "getZIndex"
  /\ prevArg \notin DOMAIN blockMap
  /\ lastRet = <<>>

\* C13: once a pointer-down has run its update callback, the clicked block's
\* mesh renderOrder is strictly greater than that of every other live block,
\* and every live block's mesh renderOrder is the store's getRenderOrder.
C13_ClickBringsToFront ==
  lastOp = "pointerDown" =>
    /\ \A b \in BlockIdsOf(blocks) \ {lastArg} : mesh[lastArg] > mesh[b]
    /\ \A b \in BlockIdsOf(blocks) : mesh[b] = RankOf(b)

====
